---- MODULE Spec2Model ----
(***************************************************************************)
(* Model of the LL(1) parser generator: the tokenizer (src/tokenizer.rs),  *)
(* the grammar loader, the FIRST/FOLLOW analysis, the table builder and    *)
(* the predictive parser (src/parser.rs), driven as in src/main.rs.        *)
(*                                                                         *)
(* Text is a sequence of one-character strings.  A regular expression is   *)
(* a record: the empty regex (which the regex crate matches against every  *)
(* haystack) or a list of anchored alternatives.                           *)
(***************************************************************************)
EXTENDS Integers, Sequences, FiniteSets, TLC

VARIABLES
  pc,        \* position of the driver (main) and of the running function
  patterns,  \* Tokenizer.patterns
  content,   \* the input text handed to parse
  tokres,    \* result of Tokenizer::parse called from main
  grammars,  \* Parser.grammars: insertion-ordered map, a sequence of [name, variants]
  first,     \* FirstSet: function nonterminal name -> set of token names
  follow,    \* FollowSet
  table,     \* ParsingTable: function <<grammar, token>> -> variant
  cstack,    \* call stack of build_first: frames [name, vi, nodes]
  key,       \* position of `for grammar in grammars.keys()` in from_file
  tokens,    \* Parser::parse: the token list with the synthetic EOF
  pos,       \* Parser::parse: index of next_token in tokens
  stack,     \* Parser::parse: work stack of node ids
  tree,      \* Parser::parse: the allocated AST nodes (Rc<RefCell<AST>>), by id
  rc,        \* Parser::parse: the node popped last
  result,    \* Parser::parse: the returned Result
  seen       \* history: what the work stack held at each expansion since the cursor last moved

vars == <<pc, patterns, content, tokres, grammars, first, follow, table,
          cstack, key, tokens, pos, stack, tree, rc, result, seen>>

----------------------------------------------------------------------------
\* Bounds of the model.

\* Longest input text handed to Tokenizer::parse by itself.
MaxLen == 4

\* Longest input text handed to Parser::parse.
MaxInput == 3

\* Most lines of a grammar file.
MaxLines == 3

----------------------------------------------------------------------------
\* Names fixed by the program.

EPSILON == "epsilon"

EOF == "$"

ROOT == "__ROOT"

----------------------------------------------------------------------------
\* Characters.

\* The alphanumeric characters the inputs use (char::is_alphanumeric).
Alnum == {"a", "b"}

IsAlphanumeric(c) == c \in Alnum

\* Characters of the input texts given to the tokenizer alone.
ContentChars == {"a", "b", "=", "@", " ", "\n"}

\* Characters of the input texts given to the parser.
InputChars == {"a", "b", "=", " "}

RECURSIVE SeqsUpTo(_, _)
SeqsUpTo(S, n) ==
  IF n = 0 THEN {<<>>}
  ELSE LET shorter == SeqsUpTo(S, n - 1)
       IN shorter \cup {Append(s, c) : s \in shorter, c \in S}

Contents == SeqsUpTo(ContentChars, MaxLen)

Inputs == SeqsUpTo(InputChars, MaxInput)

----------------------------------------------------------------------------
\* Regular expressions (the regex crate, as far as the lexspecs use it).

\* ^s$ for a literal s.
Lit(s) == [kind |-> "lit", s |-> s, class |-> {}]

\* ^[class]+$
Plus(class) == [kind |-> "plus", s |-> <<>>, class |-> class]

\* Regex::new(alt1|alt2|...), every alternative anchored by from_file.
Anchored(alts) == [empty |-> FALSE, alts |-> alts]

\* Regex::new(""): the empty regex.
EmptyRegex == [empty |-> TRUE, alts |-> <<>>]

AltMatches(alt, s) ==
  IF alt.kind = "lit" THEN s = alt.s
  ELSE Len(s) >= 1 /\ \A i \in 1..Len(s) : s[i] \in alt.class

\* Regex::is_match: a match anywhere in the haystack.  The empty regex matches
\* the empty string at offset 0 of every haystack.
is_match(regex, s) ==
  IF regex.empty THEN TRUE
  ELSE \E i \in 1..Len(regex.alts) : AltMatches(regex.alts[i], s)

----------------------------------------------------------------------------
\* Tokenizer (src/tokenizer.rs).

Pattern(name, value) == [name |-> name, value |-> value]

Token(name, value, line, column) ==
  [name |-> name, value |-> value, line |-> line, column |-> column]

Body(value, line, column) == [value |-> value, line |-> line, column |-> column]

\* Tokenizer::epsilon
epsilon == Pattern(EPSILON, EmptyRegex)

\* A line of a lexspec file after the capture NAME = PATTERN: the name and the
\* alternatives of the pattern; NoDecl is a line the declaration regex rejects.
Decl(name, alts) == [decl |-> TRUE, name |-> name, alts |-> alts]

NoDecl == [decl |-> FALSE, name |-> "", alts |-> <<>>]

\* The lexspec files.
LexSpecs ==
  { << Decl("a", <<Lit(<<"a">>)>>), Decl("b", <<Lit(<<"b">>)>>) >>,
    << Decl("ID", <<Plus({"a", "b"})>>), Decl("EQ", <<Lit(<<"=">>)>>) >>,
    << Decl("a", <<Lit(<<"a">>)>>), Decl("b", <<Lit(<<"b">>)>>),
       Decl("EE", <<Lit(<<"=", "=">>)>>) >>,
    << Decl("a", <<Lit(<<"a">>)>>), NoDecl >> }

\* Tokenizer::from_file: the patterns of the declarations in order, then the
\* epsilon pattern; an error when a line is no declaration.
tokenizer_from_file(lexspec) ==
  IF \E i \in 1..Len(lexspec) : ~lexspec[i].decl
  THEN [ok |-> FALSE, patterns |-> <<>>]
  ELSE [ok |-> TRUE,
        patterns |-> Append([i \in 1..Len(lexspec) |->
                               Pattern(lexspec[i].name, Anchored(lexspec[i].alts))],
                            epsilon)]

\* split_keep: the loop over text.match_indices(|c| !c.is_alphanumeric()).
\* i is the 1-based place of the character looked at; index is its 0-based
\* offset, as in the source.
RECURSIVE split_scan(_, _, _)
split_scan(text, i, st) ==
  IF i > Len(text) THEN st
  ELSE
    LET c == text[i]
        index == i - 1
    IN IF IsAlphanumeric(c) THEN split_scan(text, i + 1, st)
       ELSE
         LET flushed ==
               IF st.last # index
               THEN [st EXCEPT
                       !.result = Append(@, Body(SubSeq(text, st.last + 1, index),
                                                 st.line, st.column)),
                       !.column = @ + (index - st.last)]
               ELSE st
             stepped ==
               CASE c \in {" ", "\t"} -> [flushed EXCEPT !.column = @ + 1]
                 [] c = "\r" -> [flushed EXCEPT !.column = 1, !.line_start = index]
                 [] c = "\n" -> [flushed EXCEPT !.line = @ + 1, !.column = 1,
                                                !.line_start = index]
                 [] OTHER ->
                      [flushed EXCEPT
                         !.result = Append(@, Body(<<c>>, flushed.line,
                                                   index - flushed.line_start)),
                         !.column = (index - flushed.line_start) + 1]
         IN split_scan(text, i + 1, [stepped EXCEPT !.last = index + 1])

split_keep(text) ==
  LET st == split_scan(text, 1, [result |-> <<>>, last |-> 0, line |-> 1,
                                 line_start |-> 0, column |-> 1])
  IN IF st.last < Len(text)
     THEN Append(st.result, Body(SubSeq(text, st.last + 1, Len(text)),
                                 st.line, st.column))
     ELSE st.result

\* The inner loop of Tokenizer::parse: the index of the first pattern that
\* matches, 0 when none does.
first_match(pats, s) ==
  IF \E i \in 1..Len(pats) : is_match(pats[i].value, s)
  THEN CHOOSE i \in 1..Len(pats) :
         /\ is_match(pats[i].value, s)
         /\ \A j \in 1..(i - 1) : ~is_match(pats[j].value, s)
  ELSE 0

\* lookup: Option<Body>
None == [some |-> FALSE, body |-> Body(<<>>, 0, 0)]

\* The outer loop of Tokenizer::parse over the atoms of split_keep.  lookup is
\* assigned None on a match and nowhere else.
RECURSIVE tokenizer_loop(_, _, _, _)
tokenizer_loop(pats, subs, k, st) ==
  IF k > Len(subs) THEN st
  ELSE
    LET sub == subs[k]
        current == IF st.lookup.some
                   THEN Body(st.lookup.body.value \o sub.value,
                             st.lookup.body.line, st.lookup.body.column)
                   ELSE sub
        m == first_match(pats, current.value)
    IN IF m # 0
       THEN tokenizer_loop(pats, subs, k + 1,
              [result |-> Append(st.result,
                                 Token(pats[m].name, current.value,
                                       current.line, current.column)),
               lookup |-> None,
               unmatched |-> <<>>])
       ELSE IF Len(st.unmatched) = 0
            THEN tokenizer_loop(pats, subs, k + 1, [st EXCEPT !.unmatched = sub.value])
            ELSE tokenizer_loop(pats, subs, k + 1, st)

UnknownToken(unmatched) ==
  [msg |-> "Unknown token", value |-> unmatched, line |-> 0, column |-> 0]

NoError == [msg |-> "", value |-> <<>>, line |-> 0, column |-> 0]

\* Tokenizer::parse
tokenizer_parse(pats, s) ==
  LET st == tokenizer_loop(pats, split_keep(s), 1,
                           [result |-> <<>>, lookup |-> None, unmatched |-> <<>>])
  IN IF Len(st.unmatched) > 0
     THEN [ok |-> FALSE, tokens |-> <<>>, err |-> UnknownToken(st.unmatched)]
     ELSE [ok |-> TRUE, tokens |-> st.result, err |-> NoError]

----------------------------------------------------------------------------
\* Grammar loader (Parser::from_file, src/parser.rs).

\* Deepest nesting of build_first calls the model follows (the call stack).
MaxDepth == 6

\* NodeType
NodeToken(name) == [kind |-> "Token", name |-> name]

NodeGrammar(name) == [kind |-> "Grammar", name |-> name]

\* Parser::eof
eof == NodeToken(EOF)

\* A line of a grammar file after the capture HEAD -> BODY: the head and, per
\* alternative, the items of body.split(" "); NoRule is a line the declaration
\* regex rejects (a blank line, a comment).
Rule(name, alts) == [decl |-> TRUE, name |-> name, alts |-> alts]

NoRule == [decl |-> FALSE, name |-> "", alts |-> <<>>]

\* The lines grammar files are made of.
GrammarLines ==
  { NoRule,
    Rule("S", << <<"a", "b">> >>),
    Rule("S", << <<"A", "b">> >>),
    Rule("S", << <<"A", "B">> >>),
    Rule("A", << <<"a">> >>),
    Rule("A", << <<"a">>, <<"epsilon">> >>),
    Rule("B", << <<"b">>, <<"epsilon">> >>),
    Rule("A", << <<"A", "a">>, <<"b">> >>),
    Rule("B", << <<"a", "A">> >>),
    Rule("A", << <<"b">>, <<"B", "A">> >>) }

GrammarTexts == SeqsUpTo(GrammarLines, MaxLines)

\* IndexMap::get on grammars
HasGrammar(gs, name) == \E i \in 1..Len(gs) : gs[i].name = name

VariantsOf(gs, name) ==
  IF HasGrammar(gs, name)
  THEN gs[CHOOSE i \in 1..Len(gs) : gs[i].name = name].variants
  ELSE <<>>

\* IndexMap::insert on grammars: a present key keeps its place and gets the
\* new value, an absent key is appended.
grammars_insert(gs, name, variants) ==
  IF HasGrammar(gs, name)
  THEN [i \in 1..Len(gs) |->
          IF gs[i].name = name THEN [name |-> name, variants |-> variants] ELSE gs[i]]
  ELSE Append(gs, [name |-> name, variants |-> variants])

\* The classification of one item of an alternative: a token when a pattern of
\* the tokenizer has that name, a grammar otherwise.
classify(pats, item) ==
  IF \E i \in 1..Len(pats) : pats[i].name = item
  THEN NodeToken(item)
  ELSE NodeGrammar(item)

parse_variants(pats, alts) ==
  [v \in 1..Len(alts) |-> [n \in 1..Len(alts[v]) |-> classify(pats, alts[v][n])]]

\* Whether the line at the 0-based place index gets the root grammar inserted
\* before it.
inserts_root(index) == index = 0

\* The loop of from_file over content.lines().enumerate(); i is the 1-based
\* place of the line, index its 0-based place as in the source.
RECURSIVE load_lines(_, _, _, _)
load_lines(pats, text, i, gs) ==
  IF i > Len(text) THEN gs
  ELSE
    LET line == text[i]
        index == i - 1
    IN IF line.decl
       THEN LET rooted == IF inserts_root(index)
                          THEN grammars_insert(gs, ROOT,
                                               << <<NodeGrammar(line.name), eof>> >>)
                          ELSE gs
            IN load_lines(pats, text, i + 1,
                          grammars_insert(rooted, line.name,
                                          parse_variants(pats, line.alts)))
       ELSE load_lines(pats, text, i + 1, gs)

\* is_epsilon
is_epsilon(variant) ==
  /\ Len(variant) = 1
  /\ variant[1].kind = "Token"
  /\ variant[1].name = EPSILON

\* has_epsilon
has_epsilon(variants) == \E v \in 1..Len(variants) : is_epsilon(variants[v])

\* IndexMap::insert on first and follow
map_insert(m, name, nodes) == (name :> nodes) @@ m

----------------------------------------------------------------------------
\* build_follow

\* found_after_grammar (parser.rs line 327)
found_after_grammar(found, name) == found /\ name # "$"

\* found_as_last_token_in_grammar without the test that the alternative is one
\* of the grammar whose set is built.
last_token_of_any_grammar(grammar, grammar_name, index, variant) ==
  /\ index = Len(variant) - 1
  /\ Len(variant) # 1

\* found_as_last_token_in_grammar (parser.rs lines 328-330); index is 0-based.
found_as_last_token_in_grammar(grammar, grammar_name, index, variant) ==
  /\ grammar = grammar_name
  /\ index = Len(variant) - 1
  /\ Len(variant) # 1

\* The production whose epsilon alternative makes FOLLOW(grammar) flow into
\* the set being built, when a nonterminal follows the occurrence: the
\* variants of the enclosing loop (parser.rs line 354).
epsilon_source(gs, grammar, name) == VariantsOf(gs, grammar)

\* The loop over the nodes of one variant (parser.rs lines 319-364).  ctx holds
\* what the loop reads: grammars, grammar, variant, grammar_name, first, follow.
\* A break returns the state at once.
RECURSIVE follow_scan(_, _, _)
follow_scan(ctx, i, st) ==
  IF i > Len(ctx.variant) THEN st
  ELSE
    LET node == ctx.variant[i]
        index == i - 1
    IN IF node.kind = "Token"
       THEN IF node.name = EPSILON
            THEN follow_scan(ctx, i + 1, st)
            ELSE IF \/ found_after_grammar(st.found, node.name)
                    \/ found_as_last_token_in_grammar(ctx.grammar, ctx.grammar_name,
                                                      index, ctx.variant)
                 THEN [st EXCEPT !.nodes = @ \cup {node.name}, !.resolved = TRUE]
                 ELSE follow_scan(ctx, i + 1, st)
       ELSE IF node.name = ctx.grammar_name
            THEN follow_scan(ctx, i + 1, [st EXCEPT !.found = TRUE])
            ELSE IF st.found
                 THEN LET first_nodes ==
                            IF node.name \in DOMAIN ctx.first
                            THEN ctx.first[node.name] \ {EPSILON}
                            ELSE {}
                          follow_nodes ==
                            IF /\ has_epsilon(epsilon_source(ctx.grammars, ctx.grammar,
                                                             node.name))
                               /\ ctx.grammar \in DOMAIN ctx.follow
                            THEN ctx.follow[ctx.grammar]
                            ELSE {}
                      IN follow_scan(ctx, i + 1,
                           [st EXCEPT !.resolved = TRUE,
                                      !.nodes = @ \cup first_nodes \cup follow_nodes])
                 ELSE follow_scan(ctx, i + 1, st)

\* One variant of one grammar (parser.rs lines 315-373): the scan, then the
\* rule for an occurrence nothing was recorded after.
follow_variant(gs, grammar, variant, grammar_name, fst, fol, nodes) ==
  LET st == follow_scan([grammars |-> gs, grammar |-> grammar, variant |-> variant,
                         grammar_name |-> grammar_name, first |-> fst, follow |-> fol],
                        1, [nodes |-> nodes, found |-> FALSE, resolved |-> FALSE])
  IN IF st.found /\ ~st.resolved /\ grammar # grammar_name /\ grammar \in DOMAIN fol
     THEN st.nodes \cup fol[grammar]
     ELSE st.nodes

\* The loops over grammars and their variants (parser.rs lines 314-315).
RECURSIVE follow_loop(_, _, _, _, _, _, _)
follow_loop(gs, g, v, grammar_name, fst, fol, nodes) ==
  IF g > Len(gs) THEN nodes
  ELSE IF v > Len(gs[g].variants)
       THEN follow_loop(gs, g + 1, 1, grammar_name, fst, fol, nodes)
       ELSE follow_loop(gs, g, v + 1, grammar_name, fst, fol,
                        follow_variant(gs, gs[g].name, gs[g].variants[v],
                                       grammar_name, fst, fol, nodes))

\* build_follow: the follow map after the call.
build_follow(grammar_name, gs, fst, fol) ==
  IF grammar_name \in DOMAIN fol THEN fol
  ELSE map_insert(fol, grammar_name,
                  follow_loop(gs, 1, 1, grammar_name, fst, fol, {}))

----------------------------------------------------------------------------
\* build_parsing_table

\* insert_parsing_table_row
insert_parsing_table_row(tbl, grammar, toks, variant) ==
  [cell \in {<<grammar, t>> : t \in toks \ {EPSILON}} |-> variant] @@ tbl

\* One variant of one grammar (parser.rs lines 409-429).
table_variant(tbl, grammar, variant, fst, fol) ==
  IF is_epsilon(variant)
  THEN IF grammar \in DOMAIN fol
       THEN insert_parsing_table_row(tbl, grammar, fol[grammar], variant)
       ELSE tbl
  ELSE IF grammar \in DOMAIN fst
       THEN IF Len(variant) > 0 /\ variant[1].kind = "Token"
            THEN IF variant[1].name \in fst[grammar]
                 THEN insert_parsing_table_row(tbl, grammar, {variant[1].name}, variant)
                 ELSE tbl
            ELSE insert_parsing_table_row(tbl, grammar, fst[grammar], variant)
       ELSE tbl

RECURSIVE table_loop(_, _, _, _, _, _)
table_loop(gs, g, v, fst, fol, tbl) ==
  IF g > Len(gs) THEN tbl
  ELSE IF v > Len(gs[g].variants)
       THEN table_loop(gs, g + 1, 1, fst, fol, tbl)
       ELSE table_loop(gs, g, v + 1, fst, fol,
                       table_variant(tbl, gs[g].name, gs[g].variants[v], fst, fol))

build_parsing_table(gs, fst, fol) == table_loop(gs, 1, 1, fst, fol, <<>>)

----------------------------------------------------------------------------
\* Parser::parse: the tree and the results.

\* AST::Token and AST::Grammar, held by id in tree.
AstToken(name, value) ==
  [kind |-> "Token", name |-> name, value |-> value, children |-> <<>>]

AstGrammar(name, children) ==
  [kind |-> "Grammar", name |-> name, value |-> <<>>, children |-> children]

\* unexpected_token
unexpected_token(token) ==
  [msg |-> "Unexpected token", value |-> token.value,
   line |-> token.line, column |-> token.column]

EndOfStream == [msg |-> "Unexpected end of stream.", value |-> <<>>,
                line |-> 0, column |-> 0]

NoGrammars == [msg |-> "Parser doesn't have any grammars.", value |-> <<>>,
               line |-> 0, column |-> 0]

Ok(node) == [ok |-> TRUE, node |-> node, err |-> NoError]

Err(e) == [ok |-> FALSE, node |-> 0, err |-> e]

NoResult == [ok |-> FALSE, node |-> 0, err |-> NoError]

\* The children allocated for a variant (parser.rs lines 207-223), by id order.
new_children(variant) ==
  [k \in 1..Len(variant) |->
     LET node == variant[Len(variant) - k + 1]
     IN IF node.kind = "Token"
        THEN AstToken(node.name, <<>>)
        ELSE AstGrammar(node.name, <<>>)]

----------------------------------------------------------------------------
\* The state machine.

Init ==
  /\ pc = "start"
  /\ patterns = <<>>
  /\ content = <<>>
  /\ tokres = [ok |-> FALSE, tokens |-> <<>>, err |-> NoError]
  /\ grammars = <<>>
  /\ first = <<>>
  /\ follow = <<>>
  /\ table = <<>>
  /\ cstack = <<>>
  /\ key = 0
  /\ tokens = <<>>
  /\ pos = 0
  /\ stack = <<>>
  /\ tree = <<>>
  /\ rc = 0
  /\ result = NoResult
  /\ seen = {}

\* main: Tokenizer::from_file(token_path).unwrap()
TokenizerFromFile ==
  /\ pc = "start"
  /\ \E lexspec \in LexSpecs :
       LET r == tokenizer_from_file(lexspec)
       IN IF r.ok
          THEN /\ patterns' = r.patterns
               /\ pc' = "tokenizer"
          ELSE /\ patterns' = patterns
               /\ pc' = "lexspec_error"
  /\ UNCHANGED <<content, tokres, grammars, first, follow, table, cstack, key,
                 tokens, pos, stack, tree, rc, result, seen>>

\* main: tokenizer.parse(content)
TokenizerParse ==
  /\ pc = "tokenizer"
  /\ \E s \in Contents :
       /\ content' = s
       /\ tokres' = tokenizer_parse(patterns, s)
  /\ pc' = "tokenized"
  /\ UNCHANGED <<patterns, grammars, first, follow, table, cstack, key,
                 tokens, pos, stack, tree, rc, result, seen>>

\* Parser::from_file up to the first loop over grammars.keys() (lines 65-121).
ParserFromFile ==
  /\ pc = "tokenizer"
  /\ \E text \in GrammarTexts :
       grammars' = load_lines(patterns, text, 1, <<>>)
  /\ first' = <<>>
  /\ follow' = <<>>
  /\ key' = 1
  /\ pc' = "build_first"
  /\ UNCHANGED <<patterns, content, tokres, table, cstack,
                 tokens, pos, stack, tree, rc, result, seen>>

Frame(name) == [name |-> name, vi |-> 1, nodes |-> {}]

\* from_file calls build_first for the next key (lines 123-125); a key that
\* has its entry returns at once (lines 275-277).
FirstCall ==
  /\ pc = "build_first"
  /\ cstack = <<>>
  /\ key <= Len(grammars)
  /\ cstack' = IF grammars[key].name \in DOMAIN first
               THEN cstack
               ELSE <<Frame(grammars[key].name)>>
  /\ key' = key + 1
  /\ UNCHANGED <<pc, patterns, content, tokres, grammars, first, follow, table,
                 tokens, pos, stack, tree, rc, result, seen>>

\* build_first looks at the first node of its next variant (lines 281-297).  A
\* token is inserted.  For a grammar, build_first is called: with an entry in
\* first it returns at once and the entry is copied; without one a frame is
\* pushed, and the copy happens when this frame runs again after the return.
FirstStep ==
  /\ pc = "build_first"
  /\ cstack # <<>>
  /\ LET top == cstack[Len(cstack)]
         variants == VariantsOf(grammars, top.name)
     IN /\ top.vi <= Len(variants)
        /\ LET variant == variants[top.vi]
               next == [top EXCEPT !.vi = @ + 1]
           IN IF Len(variant) = 0
              THEN cstack' = [cstack EXCEPT ![Len(cstack)] = next]
              ELSE IF variant[1].kind = "Token"
                   THEN cstack' = [cstack EXCEPT ![Len(cstack)] =
                                     [next EXCEPT !.nodes = @ \cup {variant[1].name}]]
                   ELSE IF variant[1].name \in DOMAIN first
                        THEN cstack' = [cstack EXCEPT ![Len(cstack)] =
                                          [next EXCEPT !.nodes = @ \cup first[variant[1].name]]]
                        ELSE /\ Len(cstack) < MaxDepth
                             /\ cstack' = Append(cstack, Frame(variant[1].name))
  /\ UNCHANGED <<pc, patterns, content, tokres, grammars, first, follow, table, key,
                 tokens, pos, stack, tree, rc, result, seen>>

\* build_first inserts its set and returns (line 300).
FirstReturn ==
  /\ pc = "build_first"
  /\ cstack # <<>>
  /\ LET top == cstack[Len(cstack)]
     IN /\ top.vi > Len(VariantsOf(grammars, top.name))
        /\ first' = map_insert(first, top.name, top.nodes)
  /\ cstack' = SubSeq(cstack, 1, Len(cstack) - 1)
  /\ UNCHANGED <<pc, patterns, content, tokres, grammars, follow, table, key,
                 tokens, pos, stack, tree, rc, result, seen>>

\* The recursion of build_first has used up the call stack: the process aborts.
FirstOverflow ==
  /\ pc = "build_first"
  /\ Len(cstack) = MaxDepth
  /\ LET top == cstack[Len(cstack)]
         variants == VariantsOf(grammars, top.name)
     IN /\ top.vi <= Len(variants)
        /\ Len(variants[top.vi]) > 0
        /\ variants[top.vi][1].kind = "Grammar"
        /\ variants[top.vi][1].name \notin DOMAIN first
  /\ pc' = "stack_overflow"
  /\ UNCHANGED <<patterns, content, tokres, grammars, first, follow, table, cstack, key,
                 tokens, pos, stack, tree, rc, result, seen>>

\* from_file goes on to the loop that builds follow (line 127).
FirstDone ==
  /\ pc = "build_first"
  /\ cstack = <<>>
  /\ key > Len(grammars)
  /\ pc' = "build_follow"
  /\ key' = 1
  /\ UNCHANGED <<patterns, content, tokres, grammars, first, follow, table, cstack,
                 tokens, pos, stack, tree, rc, result, seen>>

\* from_file calls build_follow for the next key (lines 127-129).
FollowCall ==
  /\ pc = "build_follow"
  /\ key <= Len(grammars)
  /\ follow' = build_follow(grammars[key].name, grammars, first, follow)
  /\ key' = key + 1
  /\ UNCHANGED <<pc, patterns, content, tokres, grammars, first, table, cstack,
                 tokens, pos, stack, tree, rc, result, seen>>

\* from_file builds the table and returns the Parser (lines 131-138).
BuildTable ==
  /\ pc = "build_follow"
  /\ key > Len(grammars)
  /\ table' = build_parsing_table(grammars, first, follow)
  /\ pc' = "parser"
  /\ UNCHANGED <<patterns, content, tokres, grammars, first, follow, cstack, key,
                 tokens, pos, stack, tree, rc, result, seen>>

\* Parser::parse up to the loop (lines 152-190).
ParseBegin ==
  /\ pc = "parser"
  /\ \E s \in Inputs :
       LET r == tokenizer_parse(patterns, s)
           toks == Append(r.tokens, Token(EOF, <<"$">>, 0, 0))
       IN /\ content' = s
          /\ IF ~r.ok
             THEN /\ result' = Err(r.err)
                  /\ pc' = "returned"
                  /\ UNCHANGED <<tokens, pos, stack, tree>>
             ELSE IF Len(grammars) = 0
                  THEN /\ result' = Err(NoGrammars)
                       /\ pc' = "returned"
                       /\ tokens' = toks
                       /\ UNCHANGED <<pos, stack, tree>>
                  ELSE /\ tokens' = toks
                       /\ tree' = <<AstToken(EOF, <<"$">>),
                                    AstGrammar(grammars[1].name, <<>>)>>
                       /\ stack' = <<1, 2>>
                       /\ pos' = 1
                       /\ pc' = "loop"
                       /\ result' = result
  /\ UNCHANGED <<patterns, tokres, grammars, first, follow, table, cstack, key, rc>>
  /\ seen' = {}

\* The node the loop holds after the initial push (line 178).
root == 2

next_token == tokens[pos]

Top == stack[Len(stack)]

Popped == SubSeq(stack, 1, Len(stack) - 1)

Cell == <<tree[Top].name, next_token.name>>

\* What an iteration of the loop reads besides next_token and the table: the
\* kind and name of every node on the work stack (lines 193-200).
Configuration == [i \in 1..Len(stack) |-> <<tree[stack[i]].kind, tree[stack[i]].name>>]

\* A grammar node whose table cell holds a variant other than epsilon: its
\* children are allocated, prepended and pushed (lines 203-229).
ParseExpand ==
  /\ pc = "loop"
  /\ stack # <<>>
  /\ tree[Top].kind = "Grammar"
  /\ Cell \in DOMAIN table
  /\ ~is_epsilon(table[Cell])
  /\ Configuration \notin seen
  /\ LET variant == table[Cell]
         n == Len(variant)
         base == Len(tree)
         fresh == [k \in 1..n |-> base + k]
         prepended == [j \in 1..n |-> base + (n - j) + 1]
     IN /\ tree' = [tree EXCEPT ![Top].children = prepended \o @] \o new_children(variant)
        /\ stack' = Popped \o fresh
  /\ rc' = Top
  /\ UNCHANGED <<pc, patterns, content, tokres, grammars, first, follow, table, cstack,
                 key, tokens, pos, result>>
  /\ seen' = seen \cup {Configuration}

\* A grammar node whose table cell holds the epsilon variant (lines 201-202).
ParseEpsilon ==
  /\ pc = "loop"
  /\ stack # <<>>
  /\ tree[Top].kind = "Grammar"
  /\ Cell \in DOMAIN table
  /\ is_epsilon(table[Cell])
  /\ Configuration \notin seen
  /\ stack' = Popped
  /\ rc' = Top
  /\ UNCHANGED <<pc, patterns, content, tokres, grammars, first, follow, table, cstack,
                 key, tokens, pos, tree, result>>
  /\ seen' = seen \cup {Configuration}

\* A token node named as the next token, other than EOF: it takes the value
\* and the cursor advances (lines 241-250).
ParseMatch ==
  /\ pc = "loop"
  /\ stack # <<>>
  /\ tree[Top].kind = "Token"
  /\ tree[Top].name = next_token.name
  /\ tree[Top].name # EOF
  /\ tree' = [tree EXCEPT ![Top] = AstToken(tree[Top].name, next_token.value)]
  /\ stack' = Popped
  /\ rc' = Top
  /\ IF pos < Len(tokens)
     THEN /\ pos' = pos + 1
          /\ UNCHANGED <<pc, result>>
     ELSE /\ result' = Err(EndOfStream)
          /\ pc' = "returned"
          /\ pos' = pos
  /\ UNCHANGED <<patterns, content, tokres, grammars, first, follow, table, cstack,
                 key, tokens>>
  /\ seen' = {}

\* A token node named EOF with EOF as the next token: the loop breaks and the
\* first child of the root is returned (lines 237-239 and 261-264); unwrap
\* panics on a root without children.
ParseAccept ==
  /\ pc = "loop"
  /\ stack # <<>>
  /\ tree[Top].kind = "Token"
  /\ tree[Top].name = next_token.name
  /\ tree[Top].name = EOF
  /\ stack' = Popped
  /\ rc' = Top
  /\ IF Len(tree[root].children) = 0
     THEN /\ pc' = "panic"
          /\ result' = result
     ELSE /\ pc' = "returned"
          /\ result' = Ok(tree[root].children[1])
  /\ UNCHANGED <<patterns, content, tokres, grammars, first, follow, table, cstack,
                 key, tokens, pos, tree, seen>>

\* An iteration that finds the work stack as an earlier iteration found it,
\* with the cursor where it was: every iteration between the two was an
\* expansion chosen by the stack, the next token and the table alone
\* (lines 192-229), so the same iterations follow again, without end.
ParseDiverge ==
  /\ pc = "loop"
  /\ stack # <<>>
  /\ tree[Top].kind = "Grammar"
  /\ Cell \in DOMAIN table
  /\ Configuration \in seen
  /\ pc' = "diverged"
  /\ UNCHANGED <<patterns, content, tokres, grammars, first, follow, table, cstack,
                 key, tokens, pos, stack, tree, rc, result, seen>>

\* No table cell, a token node of another name, or an empty stack
\* (lines 231-233, 251-253, 256-258).
ParseReject ==
  /\ pc = "loop"
  /\ IF stack = <<>> THEN TRUE
     ELSE IF tree[Top].kind = "Grammar" THEN Cell \notin DOMAIN table
     ELSE tree[Top].name # next_token.name
  /\ stack' = IF stack = <<>> THEN stack ELSE Popped
  /\ rc' = IF stack = <<>> THEN rc ELSE Top
  /\ result' = Err(unexpected_token(next_token))
  /\ pc' = "returned"
  /\ UNCHANGED <<patterns, content, tokres, grammars, first, follow, table, cstack,
                 key, tokens, pos, tree, seen>>

\* The tokenizer by itself.
NextTok ==
  \/ TokenizerFromFile
  \/ TokenizerParse

SpecTok == Init /\ [][NextTok]_vars

\* The loading of a grammar.
NextLoad ==
  \/ TokenizerFromFile
  \/ ParserFromFile
  \/ FirstCall
  \/ FirstStep
  \/ FirstReturn
  \/ FirstOverflow
  \/ FirstDone
  \/ FollowCall
  \/ BuildTable

SpecLoad == Init /\ [][NextLoad]_vars

\* The program.
Next ==
  \/ TokenizerFromFile
  \/ TokenizerParse
  \/ ParserFromFile
  \/ FirstCall
  \/ FirstStep
  \/ FirstReturn
  \/ FirstOverflow
  \/ FirstDone
  \/ FollowCall
  \/ BuildTable
  \/ ParseBegin
  \/ ParseExpand
  \/ ParseEpsilon
  \/ ParseMatch
  \/ ParseAccept
  \/ ParseDiverge
  \/ ParseReject

Spec == Init /\ [][Next]_vars

----------------------------------------------------------------------------
\* What the claims speak of.

\* The patterns the lexspec declares: all but the epsilon pattern appended last.
Declared == SubSeq(patterns, 1, Len(patterns) - 1)

MatchesDeclared(s) == \E i \in 1..Len(Declared) : is_match(Declared[i].value, s)

Atoms == split_keep(content)

RECURSIVE Concat(_, _, _)
Concat(subs, i, j) == IF i > j THEN <<>> ELSE subs[i].value \o Concat(subs, i + 1, j)

Whitespace == {" ", "\t", "\r", "\n"}

\* The places (1-based) of the text where an atom starts, read off the text.
AtomStarts(text) ==
  {i \in 1..Len(text) :
     /\ text[i] \notin Whitespace
     /\ IsAlphanumeric(text[i]) => (i = 1 \/ ~IsAlphanumeric(text[i - 1]))}

\* The k-th smallest member of a set of numbers.
Nth(S, k) == CHOOSE x \in S : Cardinality({y \in S : y < x}) = k - 1

LineOf(text, i) == 1 + Cardinality({j \in 1..(i - 1) : text[j] = "\n"})

ColumnOf(text, i) ==
  LET breaks == {j \in 1..(i - 1) : text[j] = "\n"}
      last_break == IF breaks = {} THEN 0
                    ELSE CHOOSE j \in breaks : \A k \in breaks : k <= j
  IN i - last_break

\* The (name, value) pairs of the token leaves below a node, left to right.
RECURSIVE Leaves(_)
RECURSIVE LeavesOf(_, _)
Leaves(id) ==
  IF tree[id].kind = "Token" THEN << <<tree[id].name, tree[id].value>> >>
  ELSE LeavesOf(tree[id].children, 1)

LeavesOf(ids, k) == IF k > Len(ids) THEN <<>> ELSE Leaves(ids[k]) \o LeavesOf(ids, k + 1)

TokenPairs(toks) == [i \in 1..Len(toks) |-> <<toks[i].name, toks[i].value>>]

\* from_file has returned the Parser.
Loaded == pc \in {"parser", "loop", "returned", "panic", "diverged"}

Keys == {grammars[i].name : i \in 1..Len(grammars)}

KeyIndex(name) == CHOOSE i \in 1..Len(grammars) : grammars[i].name = name

----------------------------------------------------------------------------
\* C1: whenever Parser::parse returns Ok, the (name, value) pairs of the token
\* leaves of the returned tree, left to right, are the (name, value) pairs
\* Tokenizer::parse returns for the same input.
C1_LeavesEqualTokens ==
  (pc = "returned" /\ result.ok) =>
     Leaves(result.node) = TokenPairs(tokenizer_parse(patterns, content).tokens)

\* C2: once from_file has loaded a grammar text with at least one declaration,
\* the first entry of grammars is __ROOT with the single alternative
\* [first declared head, $], and a successful parse returns a grammar node
\* named after the first declared head.
C2_RootIsFirst ==
  (Loaded /\ Len(grammars) > 0) =>
     /\ grammars[1].name = ROOT
     /\ Len(grammars) >= 2
     /\ grammars[1].variants = << <<NodeGrammar(grammars[2].name), eof>> >>
     /\ (pc = "returned" /\ result.ok) =>
           /\ tree[result.node].kind = "Grammar"
           /\ tree[result.node].name = grammars[2].name

\* C3: when the input holds an atom that matches none of the declared
\* patterns, Tokenizer::parse returns the error Unknown token naming the first
\* such atom, and no token list.
C3_UnknownTokenReported ==
  (pc = "tokenized" /\ \E k \in 1..Len(Atoms) : ~MatchesDeclared(Atoms[k].value)) =>
     LET k == CHOOSE k \in 1..Len(Atoms) :
                /\ ~MatchesDeclared(Atoms[k].value)
                /\ \A j \in 1..(k - 1) : MatchesDeclared(Atoms[j].value)
     IN /\ ~tokres.ok
        /\ tokres.err = UnknownToken(Atoms[k].value)
        /\ tokres.tokens = <<>>

\* C4: no token returned by Tokenizer::parse is named epsilon.
C4_NoEpsilonToken ==
  pc = "tokenized" =>
     \A k \in 1..Len(tokres.tokens) : tokres.tokens[k].name # EPSILON

\* C5: every token returned by Tokenizer::parse carries the 1-based line and
\* column of the first character of its lexeme (stated for the results that
\* hold one token per atom of the text, each matched by a declared pattern).
C5_PositionsOneBased ==
  (/\ pc = "tokenized"
   /\ tokres.ok
   /\ Len(tokres.tokens) = Cardinality(AtomStarts(content))
   /\ \A k \in 1..Len(tokres.tokens) : tokres.tokens[k].name # EPSILON) =>
     \A k \in 1..Len(tokres.tokens) :
        LET i == Nth(AtomStarts(content), k)
        IN /\ tokres.tokens[k].line = LineOf(content, i)
           /\ tokres.tokens[k].column = ColumnOf(content, i)

\* C6: when Parser::parse, on a grammar with its root production, fails on a
\* token leaf other than $ while the next token is the synthetic $ (the tokens
\* of the input are used up), the error is Unexpected end of stream.
C6_EndOfStreamReported ==
  (/\ pc = "returned"
   /\ ~result.ok
   /\ grammars # <<>>
   /\ grammars[1].name = ROOT
   /\ rc # 0
   /\ tree[rc].kind = "Token"
   /\ tree[rc].name # EOF
   /\ pos = Len(tokens)) =>
     result.err = EndOfStream

\* The scenario of C7: terminals a and b, grammar S -> A b, A -> a | epsilon,
\* input b.
C7_Scenario ==
  /\ [i \in 1..Len(patterns) |-> patterns[i].name] = <<"a", "b", EPSILON>>
  /\ grammars =
       << [name |-> ROOT, variants |-> << <<NodeGrammar("S"), eof>> >>],
          [name |-> "S", variants |-> << <<NodeGrammar("A"), NodeToken("b")>> >>],
          [name |-> "A", variants |-> << <<NodeToken("a")>>, <<NodeToken(EPSILON)>> >>] >>
  /\ content = <<"b">>

\* C7: in that scenario Parser::parse returns S with the children A, without
\* children, and the leaf b.
C7_EpsilonFirstParses ==
  (pc \in {"returned", "panic"} /\ C7_Scenario) =>
     /\ pc = "returned"
     /\ result.ok
     /\ tree[result.node].kind = "Grammar"
     /\ tree[result.node].name = "S"
     /\ Len(tree[result.node].children) = 2
     /\ tree[tree[result.node].children[1]] = AstGrammar("A", <<>>)
     /\ tree[tree[result.node].children[2]] = AstToken("b", <<"b">>)

\* C9: a run of two or more atoms at the start of the input whose
\* concatenation matches a declared pattern, while no shorter prefix of the
\* run matches one, is returned as one token: its value is the concatenation
\* and its line and column are those of the first atom.
C9_BufferGrows ==
  pc = "tokenized" =>
     \A j \in 2..Len(Atoms) :
        (/\ MatchesDeclared(Concat(Atoms, 1, j))
         /\ \A k \in 1..(j - 1) : ~MatchesDeclared(Concat(Atoms, 1, k))) =>
           /\ tokres.ok
           /\ Len(tokres.tokens) >= 1
           /\ tokres.tokens[1].value = Concat(Atoms, 1, j)
           /\ tokres.tokens[1].line = Atoms[1].line
           /\ tokres.tokens[1].column = Atoms[1].column

\* Alternative v of grammar h holds nonterminal a at place i and, later, at
\* place j the nonterminal x, with no token but epsilon between them.
FollowedByNonterminal(h, v, a, i, x, j) ==
  LET variant == grammars[h].variants[v]
  IN /\ i < j
     /\ j <= Len(variant)
     /\ variant[i] = NodeGrammar(a)
     /\ variant[j] = NodeGrammar(x)
     /\ x # a
     /\ \A k \in (i + 1)..(j - 1) :
          variant[k].kind = "Token" => variant[k].name = EPSILON

\* C10: when an alternative of H, whose FOLLOW was built before that of A,
\* holds A followed later by a nonterminal X, FOLLOW(A) holds FIRST(X) without
\* epsilon and, when the production of X has an epsilon alternative, all of
\* FOLLOW(H).
C10_FollowThroughNullable ==
  pc = "parser" =>
     \A h \in 1..Len(grammars) : \A v \in 1..Len(grammars[h].variants) :
       \A i, j \in 1..Len(grammars[h].variants[v]) : \A a, x \in Keys :
          (/\ FollowedByNonterminal(h, v, a, i, x, j)
           /\ h < KeyIndex(a)) =>
             /\ (first[x] \ {EPSILON}) \subseteq follow[a]
             /\ has_epsilon(VariantsOf(grammars, x)) =>
                  follow[grammars[h].name] \subseteq follow[a]

\* Nonterminal n stands in an alternative of the grammar at place h.
OccursIn(n, h) ==
  \E v \in 1..Len(grammars[h].variants) :
     \E i \in 1..Len(grammars[h].variants[v]) :
        grammars[h].variants[v][i] = NodeGrammar(n)

\* The production of n has an alternative of more than one symbol whose last
\* symbol is the token $.
EndsInEof(n) ==
  \E v \in 1..Len(VariantsOf(grammars, n)) :
     LET variant == VariantsOf(grammars, n)[v]
     IN Len(variant) > 1 /\ variant[Len(variant)] = eof

\* C8 as stated: $ is a member of no FOLLOW set.
C8_NoEofInFollow ==
  pc = "parser" => \A n \in DOMAIN follow : EOF \notin follow[n]

\* C8, amended: $ is a member of FOLLOW(N) only when the production of N has an
\* alternative of more than one symbol ending in the token $ (the injected
\* __ROOT -> start $), or when N stands in an alternative of another
\* nonterminal H whose FOLLOW was built earlier and holds $; and with the root
\* production injected, $ is a member of FOLLOW(__ROOT) and of FOLLOW(start).
C8_EofInFollowOnlyFromRoot ==
  pc = "parser" =>
     /\ \A n \in DOMAIN follow :
          EOF \in follow[n] =>
             \/ EndsInEof(n)
             \/ \E h \in 1..Len(grammars) :
                  /\ grammars[h].name # n
                  /\ h < KeyIndex(n)
                  /\ EOF \in follow[grammars[h].name]
                  /\ OccursIn(n, h)
     /\ (grammars # <<>> /\ grammars[1].name = ROOT) =>
          /\ EOF \in follow[ROOT]
          /\ EOF \in follow[grammars[2].name]

\* A loaded grammar with its root production in which FOLLOW of some
\* nonterminal lacks $ and FOLLOW of a nonterminal other than __ROOT and the
\* start symbol holds it.
C8_Witness ==
  /\ pc = "parser"
  /\ Len(grammars) >= 3
  /\ grammars[1].name = ROOT
  /\ \E n \in DOMAIN follow : EOF \notin follow[n]
  /\ \E m \in DOMAIN follow \ {ROOT, grammars[2].name} : EOF \in follow[m]

\* Alternative v of the grammar at place h holds nonterminal a, and after its
\* first occurrence nothing is recorded for it: only a itself, epsilon and $
\* stand there (a is the last symbol, for one).
NothingRecordedAfter(h, v, a) ==
  LET variant == grammars[h].variants[v]
      places == {i \in 1..Len(variant) : variant[i] = NodeGrammar(a)}
  IN /\ places # {}
     /\ \A k \in 1..Len(variant) :
          (\E i \in places : i < k) =>
             \/ variant[k] = NodeGrammar(a)
             \/ variant[k] = NodeToken(EPSILON)
             \/ variant[k] = eof

\* C11: in the FOLLOW map from_file produces, for distinct nonterminals H and
\* A with an alternative of H that holds A with nothing recorded after it,
\* FOLLOW(H) is a subset of FOLLOW(A), whichever of the two is declared first.
C11_FollowOfHeadIncluded ==
  pc = "parser" =>
     \A h \in 1..Len(grammars) : \A a \in Keys \ {grammars[h].name} :
        (\E v \in 1..Len(grammars[h].variants) : NothingRecordedAfter(h, v, a)) =>
           follow[grammars[h].name] \subseteq follow[a]

\* C12: with a grammar loaded under __ROOT, once parse has entered its loop
\* the loop is never in a state it was in before: between two iterations the cursor has advanced or the work
\* stack holds other symbols, so the loop ends after finitely many iterations.
C12_ParseLoopTerminates ==
  (grammars # <<>> /\ grammars[1].name = ROOT) =>
     /\ pc # "diverged"
     /\ (pc = "loop" /\ stack # <<>>) => Configuration \notin seen

\* C13: with a grammar loaded under __ROOT, build_first never has two calls
\* for one nonterminal in progress at once, so its recursion is no deeper than
\* the grammar has nonterminals and it returns without exhausting the stack.
C13_BuildFirstTerminates ==
  (grammars # <<>> /\ grammars[1].name = ROOT) =>
     /\ pc # "stack_overflow"
     /\ \A i, j \in 1..Len(cstack) : i < j => cstack[i].name # cstack[j].name

====
